---- MODULE Spec2Model ----
(***************************************************************************)
(* Upgrade-planning engine of the Clash Level Calculator:                  *)
(*   Level16Optimizer            (greedy max-value simulator)              *)
(*   MinCostToKingLevelOptimizer (greedy min-cost-to-target simulator)     *)
(*   find_min_gem_path / find_min_gold_path (minimal-currency search)      *)
(* Optional values (Python None / value) are sequences of length 0 or 1.   *)
(* Floats that are quotients of integers are pairs <<num, den>>, den > 0,  *)
(* compared by cross-multiplication.                                       *)
(***************************************************************************)
EXTENDS Integers, Sequences, FiniteSets, TLC

VARIABLES
    mode,         \* entry point: "max" Level16Optimizer(...).generate_plan(),
                  \* "min" MinCostToKingLevelOptimizer(...).generate_plan(),
                  \* "gem" find_min_gem_path, "gold" find_min_gold_path,
                  \* "compare" one comparison of _select_best_candidate,
                  \* "lookup" GameData.king_progress_from_total_xp
    player,       \* the caller's PlayerData
    target,       \* target_king_level argument (Optional)
    sim,          \* the optimizer object of the current run
    pc,           \* "search", "plan", "loop", "check", "return", "compare",
                  \* "lookup", "done"
    result,       \* result of the last generate_plan() (Optional)
    limit,        \* current_gem_limit / current_gold_limit; in mode
                  \* "lookup" the argument total_xp
    best_result,  \* best_result of the search (Optional); in mode
                  \* "compare" the locals best and candidate of the scan
    returned,     \* value returned to the caller (Optional)
    steps         \* number of steps taken so far (history)

vars == <<mode, player, target, sim, pc, result, limit, best_result, returned, steps>>

None == <<>>
Some(x) == <<x>>
IsNone(o) == Len(o) = 0
Val(o) == o[1]
Or0(o) == IF IsNone(o) THEN 0 ELSE Val(o)

Min2(a, b) == IF a <= b THEN a ELSE b
Max2(a, b) == IF a >= b THEN a ELSE b

RatLess(a, b) == a[1] * b[2] < b[1] * a[2]
RatEq(a, b) == a[1] * b[2] = b[1] * a[2]

(* ---------------------------------------------------------------------- *)
(* Bounds of the explored inputs                                          *)
(* ---------------------------------------------------------------------- *)
MaxCount == 1
MaxGold == 2
MaxGems == 1
MaxWild == 1
MaxRoom == 2
MaxScore == 3

(* ---------------------------------------------------------------------- *)
(* Program constants                                                      *)
(* ---------------------------------------------------------------------- *)
LevelCap == 16
UnlimitedGems == 10000000
UnlimitedGold == 100000000
GoldPathGems == 10000000

(* ---------------------------------------------------------------------- *)
(* Static economy tables (constants.py)                                   *)
(* ---------------------------------------------------------------------- *)
CARD_RARITIES == {"Common", "Rare", "Epic", "Legendary", "Champion"}

CARD_MATERIAL_REQUIREMENTS ==
    [r \in {"Common", "Epic"} |->
        IF r = "Common" THEN (14 :> 1 @@ 15 :> 2 @@ 16 :> 1) ELSE (16 :> 1)]

GOLD_COST_TABLE == (15 :> 0 @@ 16 :> 2)

CARD_XP_TABLE == (15 :> 3 @@ 16 :> 4)

EFFICIENCY_OVERRIDES == (16 :> <<1, 3>>)

GEM_CARD_VALUES == ("Common" :> <<1, 1>>)

KING_XP_TABLE ==
    << [level |-> 1, cumulative |-> 0, xp_to_next |-> Some(4)],
       [level |-> 2, cumulative |-> 4, xp_to_next |-> Some(5)],
       [level |-> 3, cumulative |-> 9, xp_to_next |-> None] >>

(* ---------------------------------------------------------------------- *)
(* GameData accessors (game_data.py)                                      *)
(* ---------------------------------------------------------------------- *)
(* variant: a missing row reads as a requirement of 0                     *)
MaterialRequirementOrZero(rarity, target_level) ==
    IF rarity \in DOMAIN CARD_MATERIAL_REQUIREMENTS
       /\ target_level \in DOMAIN CARD_MATERIAL_REQUIREMENTS[rarity]
    THEN Some(CARD_MATERIAL_REQUIREMENTS[rarity][target_level])
    ELSE Some(0)

get_material_requirement(rarity, target_level) ==
    IF rarity \in DOMAIN CARD_MATERIAL_REQUIREMENTS
       /\ target_level \in DOMAIN CARD_MATERIAL_REQUIREMENTS[rarity]
    THEN Some(CARD_MATERIAL_REQUIREMENTS[rarity][target_level])
    ELSE None

get_gold_cost(target_level) ==
    IF target_level \in DOMAIN GOLD_COST_TABLE
    THEN Some(GOLD_COST_TABLE[target_level]) ELSE None

get_xp_reward(target_level) ==
    IF target_level \in DOMAIN CARD_XP_TABLE
    THEN Some(CARD_XP_TABLE[target_level]) ELSE None

get_efficiency_override(target_level) ==
    IF target_level \in DOMAIN EFFICIENCY_OVERRIDES
    THEN Some(EFFICIENCY_OVERRIDES[target_level]) ELSE None

gem_value_for_rarity(rarity) ==
    IF rarity \in DOMAIN GEM_CARD_VALUES
    THEN GEM_CARD_VALUES[rarity] ELSE <<0, 1>>

cumulative_lookup(level) ==
    LET rows == {i \in 1..Len(KING_XP_TABLE) : KING_XP_TABLE[i].level = level}
    IN  IF rows = {} THEN 0
        ELSE KING_XP_TABLE[CHOOSE i \in rows : TRUE].cumulative

total_xp_for_level(level) ==
    LET max_level == KING_XP_TABLE[Len(KING_XP_TABLE)].level
        clamped == Max2(1, Min2(level, max_level))
    IN  cumulative_lookup(clamped)

(* variant: the scan compares with > instead of >=                        *)
RECURSIVE ScanKingRowsStrict(_, _, _)
ScanKingRowsStrict(total_xp, i, current_row) ==
    IF i > Len(KING_XP_TABLE) THEN current_row
    ELSE IF total_xp > KING_XP_TABLE[i].cumulative
         THEN ScanKingRowsStrict(total_xp, i + 1, KING_XP_TABLE[i])
         ELSE current_row

RECURSIVE ScanKingRows(_, _, _)
ScanKingRows(total_xp, i, current_row) ==
    IF i > Len(KING_XP_TABLE) THEN current_row
    ELSE IF total_xp >= KING_XP_TABLE[i].cumulative
         THEN ScanKingRows(total_xp, i + 1, KING_XP_TABLE[i])
         ELSE current_row

king_progress_from_total_xp(total_xp) ==
    LET current_row == ScanKingRows(total_xp, 1, KING_XP_TABLE[1])
        xp_to_next == Or0(current_row.xp_to_next)
        raw == total_xp - current_row.cumulative
    IN  [level |-> current_row.level,
         xp_into_level |-> IF xp_to_next # 0 THEN Min2(raw, xp_to_next) ELSE 0,
         xp_to_next |-> xp_to_next,
         total_xp |-> total_xp]

(* int(round(remaining * gem_cost_per_card)): Python rounds half to even  *)
RoundHalfEven(num, den) ==
    LET q == num \div den
        r == num % den
    IN  IF 2 * r < den THEN q
        ELSE IF 2 * r > den THEN q + 1
        ELSE IF q % 2 = 0 THEN q ELSE q + 1

(* ---------------------------------------------------------------------- *)
(* Card (models.py)                                                       *)
(* ---------------------------------------------------------------------- *)
next_level(card) ==
    IF card.level >= LevelCap THEN None ELSE Some(card.level + 1)

(* ---------------------------------------------------------------------- *)
(* Optimizers (optimizer.py).  s is the optimizer object: settings,       *)
(* inventory, cards, actions, gold_spent, xp_total, wild_usage,           *)
(* total_gems_used and, for the min-cost optimizer, target_level,         *)
(* target_xp, xp_needed.  kind is "max" for Level16Optimizer and "min"    *)
(* for MinCostToKingLevelOptimizer.                                       *)
(* ---------------------------------------------------------------------- *)
(* variant: wild cards are never offered                                  *)
NoWildAvailable(s, rarity) == 0

available_wild(s, rarity) == Max2(0, s.inventory.wild_cards[rarity])

calculate_efficiency(target_level, gold_cost, xp_gain, cards_required, gems_used) ==
    LET override == get_efficiency_override(target_level)
        denominator == IF xp_gain # 0 THEN xp_gain ELSE 1
    IN  IF ~IsNone(override) THEN Val(override)
        ELSE <<gold_cost + gems_used, denominator>>

calculate_cost_efficiency(gold_cost, gems_used, xp_gain) ==
    LET denominator == IF xp_gain # 0 THEN xp_gain ELSE 1
    IN  <<gold_cost + gems_used, denominator>>

GemsForShortfall(rarity, remaining) ==
    LET rate == gem_value_for_rarity(rarity)
    IN  RoundHalfEven(remaining * rate[1], rate[2])

(* variant: the gold affordability check is skipped                       *)
GoldAlwaysAffordable(s, gold_cost) == TRUE

(* variant: a cost equal to the balance is refused                        *)
GoldAffordableStrict(s, gold_cost) ==
    ~(~s.settings.infinite_gold /\ gold_cost >= s.inventory.gold)

GoldAffordable(s, gold_cost) ==
    ~(~s.settings.infinite_gold /\ gold_cost > s.inventory.gold)

GemsAffordable(s, gems_used) ==
    ~(gems_used > s.inventory.gems)

build_candidate(s, kind, index) ==
    LET card == s.cards[index]
        nl == next_level(card)
    IN  IF IsNone(nl) THEN None
        ELSE
        LET to_level == Val(nl)
            req == get_material_requirement(card.rarity, to_level)
            gc == get_gold_cost(to_level)
            xp == get_xp_reward(to_level)
        IN  IF IsNone(req) \/ IsNone(gc) \/ IsNone(xp) THEN None
            ELSE
            LET cards_required == Val(req)
                gold_cost == Val(gc)
                xp_gain == Val(xp)
                cards_used == Min2(card.count, cards_required)
                remaining1 == cards_required - cards_used
                wild_used == Min2(remaining1, available_wild(s, card.rarity))
                remaining2 == remaining1 - wild_used
                gems_used == IF remaining2 > 0
                             THEN GemsForShortfall(card.rarity, remaining2)
                             ELSE 0
            IN  IF remaining2 > 0 /\ ~s.settings.use_gems THEN None
                ELSE IF ~GoldAffordable(s, gold_cost) THEN None
                ELSE IF ~GemsAffordable(s, gems_used) THEN None
                ELSE Some([index |-> index,
                           from_level |-> card.level,
                           to_level |-> to_level,
                           gold_cost |-> gold_cost,
                           cards_required |-> cards_required,
                           cards_used |-> cards_used,
                           wild_cards_used |-> wild_used,
                           gems_used |-> gems_used,
                           xp_gained |-> xp_gain,
                           efficiency_ratio |->
                               IF kind = "max"
                               THEN calculate_efficiency(to_level, gold_cost, xp_gain,
                                                         cards_required, gems_used)
                               ELSE calculate_cost_efficiency(gold_cost, gems_used, xp_gain),
                           material_efficiency |->
                               IF cards_required # 0
                               THEN <<xp_gain, cards_required>> ELSE <<0, 1>>])

(* variant: a candidate of equal efficiency never replaces best           *)
MaxReplacesNoTieBreak(candidate, best) ==
    RatLess(candidate.efficiency_ratio, best.efficiency_ratio)

(* Level16Optimizer._select_candidate: does candidate replace best?       *)
MaxReplaces(candidate, best) ==
    \/ RatLess(candidate.efficiency_ratio, best.efficiency_ratio)
    \/ /\ RatEq(candidate.efficiency_ratio, best.efficiency_ratio)
       /\ candidate.xp_gained > best.xp_gained

(* variant: lower gold is preferred before fewer gems                     *)
MinReplacesGoldFirst(candidate, best) ==
    \/ RatLess(candidate.efficiency_ratio, best.efficiency_ratio)
    \/ /\ RatEq(candidate.efficiency_ratio, best.efficiency_ratio)
       /\ \/ candidate.gold_cost < best.gold_cost
          \/ /\ candidate.gold_cost = best.gold_cost
             /\ \/ candidate.gems_used < best.gems_used
                \/ /\ candidate.gems_used = best.gems_used
                   /\ candidate.xp_gained > best.xp_gained

(* MinCostToKingLevelOptimizer._select_best_candidate: same question      *)
MinReplaces(candidate, best) ==
    \/ RatLess(candidate.efficiency_ratio, best.efficiency_ratio)
    \/ /\ RatEq(candidate.efficiency_ratio, best.efficiency_ratio)
       /\ \/ candidate.gems_used < best.gems_used
          \/ /\ candidate.gems_used = best.gems_used
             /\ \/ candidate.gold_cost < best.gold_cost
                \/ /\ candidate.gold_cost = best.gold_cost
                   /\ candidate.xp_gained > best.xp_gained

RECURSIVE SelectFrom(_, _, _, _)
SelectFrom(s, kind, index, best) ==
    IF index > Len(s.cards) THEN best
    ELSE
    LET candidate == build_candidate(s, kind, index)
    IN  IF IsNone(candidate) THEN SelectFrom(s, kind, index + 1, best)
        ELSE IF IsNone(best) THEN SelectFrom(s, kind, index + 1, candidate)
        ELSE IF kind = "max" /\ MaxReplaces(Val(candidate), Val(best))
             THEN SelectFrom(s, kind, index + 1, candidate)
        ELSE IF kind = "min" /\ MinReplaces(Val(candidate), Val(best))
             THEN SelectFrom(s, kind, index + 1, candidate)
        ELSE SelectFrom(s, kind, index + 1, best)

(* variant: only the first card is considered                             *)
SelectFirstCardOnly(s, kind) ==
    IF Len(s.cards) = 0 THEN None ELSE build_candidate(s, kind, 1)

select_candidate(s, kind) == SelectFrom(s, kind, 1, None)

UpgradeAction(card, candidate) ==
    [card_name |-> candidate.index,
     rarity |-> card.rarity,
     from_level |-> candidate.from_level,
     to_level |-> candidate.to_level,
     gold_cost |-> candidate.gold_cost,
     card_cost |-> candidate.cards_used,
     wild_cards_used |-> candidate.wild_cards_used,
     gems_used |-> candidate.gems_used,
     xp_gained |-> candidate.xp_gained,
     efficiency_ratio |-> candidate.efficiency_ratio,
     material_efficiency |-> candidate.material_efficiency]

(* variant: the running gem total is not advanced                         *)
GemsUsedNotAdded(s, candidate) == s.total_gems_used

GemsUsedAfter(s, candidate) == s.total_gems_used + candidate.gems_used

(* variant: the running gold total is not advanced                        *)
GoldSpentNotAdded(s, candidate) == s.gold_spent

GoldSpentAfter(s, candidate) == s.gold_spent + candidate.gold_cost

(* variant: the level is raised one step too far                          *)
UpgradedCardSkipsLevel(card, candidate) ==
    [card EXCEPT !.count = @ - candidate.cards_used,
                 !.level = candidate.to_level + 1]

(* variant: the level is not raised                                       *)
UpgradedCardKeepsLevel(card, candidate) ==
    [card EXCEPT !.count = @ - candidate.cards_used]

UpgradedCard(card, candidate) ==
    [card EXCEPT !.count = @ - candidate.cards_used,
                 !.level = candidate.to_level]

commit_candidate(s, candidate) ==
    LET card == s.cards[candidate.index]
    IN  [s EXCEPT
           !.cards[candidate.index] = UpgradedCard(card, candidate),
           !.inventory.gold =
               IF ~s.settings.infinite_gold THEN @ - candidate.gold_cost ELSE @,
           !.inventory.gems = @ - candidate.gems_used,
           !.inventory.wild_cards[card.rarity] = @ - candidate.wild_cards_used,
           !.wild_usage[card.rarity] = @ + candidate.wild_cards_used,
           !.total_gems_used = GemsUsedAfter(s, candidate),
           !.gold_spent = GoldSpentAfter(s, candidate),
           !.xp_total = @ + candidate.xp_gained,
           !.actions = Append(@, UpgradeAction(card, candidate))]

RECURSIVE SumXp(_)
SumXp(actions) ==
    IF actions = <<>> THEN 0 ELSE Head(actions).xp_gained + SumXp(Tail(actions))

ProfileOf(progress) ==
    [king_level |-> progress.level, xp_into_level |-> progress.xp_into_level]

(* variant: the explicit target is ignored                                *)
NewOptimizerDefaultTarget(player_data, settings, target_king_level) ==
    LET current_total_xp == total_xp_for_level(player_data.profile.king_level)
                            + player_data.profile.xp_into_level
        target_level == player_data.profile.king_level + 1
        target_xp == total_xp_for_level(target_level)
    IN  [settings |-> settings,
         inventory |-> player_data.inventory,
         cards |-> player_data.cards,
         actions |-> <<>>,
         gold_spent |-> 0,
         xp_total |-> current_total_xp,
         wild_usage |-> [r \in CARD_RARITIES |-> 0],
         total_gems_used |-> 0,
         target_level |-> target_level,
         target_xp |-> target_xp,
         xp_needed |-> Max2(0, target_xp - current_total_xp)]

(* __init__ of either optimizer                                           *)
NewOptimizer(player_data, settings, target_king_level) ==
    LET current_total_xp == total_xp_for_level(player_data.profile.king_level)
                            + player_data.profile.xp_into_level
        target_level == IF ~IsNone(target_king_level) THEN Val(target_king_level)
                        ELSE player_data.profile.king_level + 1
        target_xp == total_xp_for_level(target_level)
    IN  [settings |-> settings,
         inventory |-> player_data.inventory,
         cards |-> player_data.cards,
         actions |-> <<>>,
         gold_spent |-> 0,
         xp_total |-> current_total_xp,
         wild_usage |-> [r \in CARD_RARITIES |-> 0],
         total_gems_used |-> 0,
         target_level |-> target_level,
         target_xp |-> target_xp,
         xp_needed |-> Max2(0, target_xp - current_total_xp)]

(* the OptimizationResult built at the end of generate_plan               *)
PlanResult(s) ==
    [actions |-> s.actions,
     total_xp_gained |-> SumXp(s.actions),
     final_profile |-> ProfileOf(king_progress_from_total_xp(s.xp_total)),
     final_gold |-> s.inventory.gold,
     final_gems |-> s.inventory.gems,
     total_gold_spent |-> s.gold_spent,
     total_wild_cards_used |-> s.wild_usage,
     total_gems_used |-> s.total_gems_used]

(* the early return of MinCostToKingLevelOptimizer.generate_plan          *)
EarlyResult(s) ==
    [actions |-> <<>>,
     total_xp_gained |-> 0,
     final_profile |-> ProfileOf(king_progress_from_total_xp(s.xp_total)),
     final_gold |-> s.inventory.gold,
     final_gems |-> s.inventory.gems,
     total_gold_spent |-> 0,
     total_wild_cards_used |-> s.wild_usage,
     total_gems_used |-> 0]

(* variant: the empty result is built from the search's copy              *)
SyntheticResultFromCopy(player_data) ==
    [actions |-> <<>>,
     total_xp_gained |-> 0,
     final_profile |-> ProfileOf(king_progress_from_total_xp(
                          total_xp_for_level(player_data.profile.king_level)
                          + player_data.profile.xp_into_level)),
     final_gold |-> player_data.inventory.gold,
     final_gems |-> UnlimitedGems,
     total_gold_spent |-> 0,
     total_wild_cards_used |-> [r \in CARD_RARITIES |-> 0],
     total_gems_used |-> 0]

(* the empty result of find_min_gem_path / find_min_gold_path             *)
SyntheticResult(player_data) ==
    [actions |-> <<>>,
     total_xp_gained |-> 0,
     final_profile |-> ProfileOf(king_progress_from_total_xp(
                          total_xp_for_level(player_data.profile.king_level)
                          + player_data.profile.xp_into_level)),
     final_gold |-> player_data.inventory.gold,
     final_gems |-> player_data.inventory.gems,
     total_gold_spent |-> 0,
     total_wild_cards_used |-> [r \in CARD_RARITIES |-> 0],
     total_gems_used |-> 0]

(* ---------------------------------------------------------------------- *)
(* Inputs                                                                 *)
(* ---------------------------------------------------------------------- *)
StartLevels == (LevelCap - MaxRoom)..LevelCap

CardChoices(i) ==
    [rarity : IF i = 1 THEN {"Common", "Epic"} ELSE {"Common"},
     level : StartLevels,
     count : 0..MaxCount]

Inventories ==
    {[gold |-> g, gems |-> m,
      wild_cards |-> [r \in CARD_RARITIES |-> IF r = "Common" THEN w ELSE 0]] :
        g \in 0..MaxGold, m \in 0..MaxGems, w \in 0..MaxWild}

KingRow(level) ==
    KING_XP_TABLE[CHOOSE i \in 1..Len(KING_XP_TABLE) : KING_XP_TABLE[i].level = level]

(* profiles as api_adapter.player_data_from_snapshot validates them:      *)
(* 1 <= king_level <= last row, 0 <= xp_into_level <= xp_to_next          *)
Profiles ==
    {p \in [king_level : {1, 2}, xp_into_level : {0, 4}] :
        /\ p.xp_into_level <= Or0(KingRow(p.king_level).xp_to_next)
        /\ p.king_level = 2 => p.xp_into_level = 0}

Players ==
    {[profile |-> p, inventory |-> inv, cards |-> <<c1, c2>>] :
        p \in Profiles, inv \in Inventories,
        c1 \in CardChoices(1), c2 \in CardChoices(2)}

AllSettings == [use_gems : BOOLEAN, infinite_gold : BOOLEAN]

Targets == {Some(2), Some(3)}

(* variant: the gem search runs with gold costs enforced                  *)
SearchSettingsGoldEnforced(m) == [use_gems |-> TRUE, infinite_gold |-> FALSE]

SearchSettings(m) ==
    IF m = "gem" THEN [use_gems |-> TRUE, infinite_gold |-> TRUE]
    ELSE [use_gems |-> TRUE, infinite_gold |-> FALSE]

(* variant: the copy gets the ceiling of the minimized currency only      *)
SearchCopyCeilingOnly(m, player_data, lim) ==
    IF m = "gem"
    THEN [player_data EXCEPT !.inventory.gems = lim]
    ELSE [player_data EXCEPT !.inventory.gold = lim]

SearchCopy(m, player_data, lim) ==
    IF m = "gem"
    THEN [player_data EXCEPT !.inventory.gems = lim]
    ELSE [player_data EXCEPT !.inventory.gold = lim,
                             !.inventory.gems = GoldPathGems]

InitialLimit(m) == IF m = "gem" THEN UnlimitedGems ELSE UnlimitedGold

Usage(m, res) == IF m = "gem" THEN res.total_gems_used ELSE res.total_gold_spent

Kind == IF mode = "max" THEN "max" ELSE "min"

InitMax ==
    /\ mode = "max"
    /\ player \in Players
    /\ target = None
    /\ \E st \in AllSettings : sim = NewOptimizer(player, st, None)
    /\ pc = "plan"
    /\ limit = 0

InitMin ==
    /\ mode = "min"
    /\ player \in Players
    /\ target \in Targets \cup {None}
    /\ \E st \in AllSettings : sim = NewOptimizer(player, st, target)
    /\ pc = "plan"
    /\ limit = 0

InitSearch ==
    /\ mode \in {"gem", "gold"}
    /\ player \in Players
    /\ target \in Targets
    /\ sim = NewOptimizer(player, SearchSettings(mode), target)
    /\ pc = "search"
    /\ limit = InitialLimit(mode)

(* candidates as _build_candidate of the min-cost optimizer makes them,   *)
(* reduced to the fields _select_best_candidate compares                  *)
CompareCandidates ==
    {[gold_cost |-> g, gems_used |-> m, xp_gained |-> x,
      efficiency_ratio |-> calculate_cost_efficiency(g, m, x)] :
        g \in 0..MaxGold, m \in 0..MaxGems, x \in 1..MaxRoom}

(* one pass of the loop body of _select_best_candidate, entered with a    *)
(* best and a later candidate                                             *)
NoCardsPlayer ==
    [profile |-> [king_level |-> 1, xp_into_level |-> 0],
     inventory |-> [gold |-> 0, gems |-> 0,
                    wild_cards |-> [r \in CARD_RARITIES |-> 0]],
     cards |-> <<>>]

InitCompare ==
    /\ mode = "compare"
    /\ player = NoCardsPlayer
    /\ target = None
    /\ sim = NewOptimizer(player, [use_gems |-> TRUE, infinite_gold |-> FALSE], None)
    /\ pc = "compare"
    /\ limit = 0
    /\ result = None
    /\ \E best \in CompareCandidates, candidate \in CompareCandidates :
           best_result = Some([best |-> best, candidate |-> candidate])

(* total scores given to the milestone lookup: from MaxScore below the    *)
(* first row's cumulative score to MaxScore above the last row's          *)
ScoreInputs ==
    (KING_XP_TABLE[1].cumulative - MaxScore)
        ..(KING_XP_TABLE[Len(KING_XP_TABLE)].cumulative + MaxScore)

(* a call of GameData.king_progress_from_total_xp(total_xp)               *)
InitLookup ==
    /\ mode = "lookup"
    /\ player = NoCardsPlayer
    /\ target = None
    /\ sim = NewOptimizer(player, [use_gems |-> FALSE, infinite_gold |-> FALSE], None)
    /\ pc = "lookup"
    /\ limit \in ScoreInputs
    /\ result = None
    /\ best_result = None

Init ==
    /\ \/ /\ (InitMax \/ InitMin \/ InitSearch)
          /\ result = None
          /\ best_result = None
       \/ InitCompare
       \/ InitLookup
    /\ returned = None
    /\ steps = 0

(* ---------------------------------------------------------------------- *)
(* Level16Optimizer.generate_plan                                         *)
(* ---------------------------------------------------------------------- *)
(* variant: the optimizer works on the caller's own inventory and cards   *)
CallerDataShared(player_data, s) ==
    [player_data EXCEPT !.inventory = s.inventory, !.cards = s.cards]

(* the caller's PlayerData once the optimizer, whose inventory and cards  *)
(* are deep copies made by __init__, has committed and stands at s        *)
CallerData(player_data, s) == player_data

MaxCommit ==
    /\ mode = "max" /\ pc = "plan"
    /\ ~IsNone(select_candidate(sim, "max"))
    /\ sim' = commit_candidate(sim, Val(select_candidate(sim, "max")))
    /\ player' = CallerData(player, sim')
    /\ steps' = steps + 1
    /\ UNCHANGED <<mode, target, pc, result, limit, best_result, returned>>

MaxFinish ==
    /\ mode = "max" /\ pc = "plan"
    /\ IsNone(select_candidate(sim, "max"))
    /\ result' = Some(PlanResult(sim))
    /\ returned' = result'
    /\ pc' = "done"
    /\ steps' = steps + 1
    /\ UNCHANGED <<mode, player, target, sim, limit, best_result>>

(* ---------------------------------------------------------------------- *)
(* MinCostToKingLevelOptimizer.generate_plan                              *)
(* ---------------------------------------------------------------------- *)
AfterPlan == IF mode = "min" THEN "done" ELSE "check"

InLoop == pc = "loop" \/ (pc = "plan" /\ sim.xp_needed > 0)

(* variant: the loop also runs when the total equals the target          *)
LoopContinuesInclusive(s) == s.xp_total <= s.target_xp

LoopContinues(s) == s.xp_total < s.target_xp

MinEarlyReturn ==
    /\ mode # "max" /\ pc = "plan"
    /\ sim.xp_needed <= 0
    /\ result' = Some(EarlyResult(sim))
    /\ returned' = IF mode = "min" THEN result' ELSE returned
    /\ pc' = AfterPlan
    /\ steps' = steps + 1
    /\ UNCHANGED <<mode, player, target, sim, limit, best_result>>

MinCommit ==
    /\ mode # "max" /\ InLoop
    /\ LoopContinues(sim)
    /\ ~IsNone(select_candidate(sim, "min"))
    /\ sim' = commit_candidate(sim, Val(select_candidate(sim, "min")))
    /\ player' = CallerData(player, sim')
    /\ pc' = "loop"
    /\ steps' = steps + 1
    /\ UNCHANGED <<mode, target, result, limit, best_result, returned>>

MinFinish ==
    /\ mode # "max" /\ InLoop
    /\ ~(LoopContinues(sim) /\ ~IsNone(select_candidate(sim, "min")))
    /\ result' = Some(PlanResult(sim))
    /\ returned' = IF mode = "min" THEN result' ELSE returned
    /\ pc' = AfterPlan
    /\ steps' = steps + 1
    /\ UNCHANGED <<mode, player, target, sim, limit, best_result>>

(* ---------------------------------------------------------------------- *)
(* find_min_gem_path / find_min_gold_path                                 *)
(* ---------------------------------------------------------------------- *)
(* variant: the next ceiling is one too low                               *)
NextLimitTooLow(m, res) == Usage(m, res) - 2

(* variant: the next ceiling is the usage itself                          *)
NextLimitNotLower(m, res) == Usage(m, res)

NextLimit(m, res) == Usage(m, res) - 1

ReachedTarget(res, target_king_level) ==
    res.final_profile.king_level >= target_king_level

SearchIterate ==
    /\ pc = "search"
    /\ sim' = NewOptimizer(SearchCopy(mode, player, limit), SearchSettings(mode), target)
    /\ pc' = "plan"
    /\ steps' = steps + 1
    /\ UNCHANGED <<mode, player, target, result, limit, best_result, returned>>

SearchCheck ==
    /\ pc = "check"
    /\ IF ReachedTarget(Val(result), Val(target))
       THEN /\ best_result' = result
            /\ IF Usage(mode, Val(result)) = 0
               THEN pc' = "return" /\ limit' = limit
               ELSE pc' = "search" /\ limit' = NextLimit(mode, Val(result))
       ELSE /\ pc' = "return"
            /\ UNCHANGED <<best_result, limit>>
    /\ steps' = steps + 1
    /\ UNCHANGED <<mode, player, target, sim, result, returned>>

SearchReturn ==
    /\ pc = "return"
    /\ returned' = IF IsNone(best_result) THEN Some(SyntheticResult(player))
                   ELSE best_result
    /\ pc' = "done"
    /\ steps' = steps + 1
    /\ UNCHANGED <<mode, player, target, sim, result, limit, best_result>>

(* ---------------------------------------------------------------------- *)
(* _select_best_candidate: one comparison of candidate against best       *)
(* ---------------------------------------------------------------------- *)
Compare ==
    /\ pc = "compare"
    /\ LET best == Val(best_result).best
           candidate == Val(best_result).candidate
       IN  returned' = Some(IF MinReplaces(candidate, best) THEN candidate ELSE best)
    /\ pc' = "done"
    /\ steps' = steps + 1
    /\ UNCHANGED <<mode, player, target, sim, result, limit, best_result>>

(* ---------------------------------------------------------------------- *)
(* GameData.king_progress_from_total_xp called on its own                 *)
(* ---------------------------------------------------------------------- *)
Lookup ==
    /\ pc = "lookup"
    /\ returned' = Some(king_progress_from_total_xp(limit))
    /\ pc' = "done"
    /\ steps' = steps + 1
    /\ UNCHANGED <<mode, player, target, sim, result, limit, best_result>>

Next ==
    \/ MaxCommit
    \/ MaxFinish
    \/ MinEarlyReturn
    \/ MinCommit
    \/ MinFinish
    \/ SearchIterate
    \/ SearchCheck
    \/ SearchReturn
    \/ Compare
    \/ Lookup

Spec == Init /\ [][Next]_vars

(* ---------------------------------------------------------------------- *)
(* The entry points on their own: Level16Optimizer.generate_plan, and     *)
(* MinCostToKingLevelOptimizer: generate_plan called directly or by       *)
(* find_min_gem_path / find_min_gold_path, and one comparison of          *)
(* _select_best_candidate                                                 *)
(* ---------------------------------------------------------------------- *)
Fresh == result = None /\ best_result = None

InitLevel16 ==
    /\ InitMax /\ Fresh
    /\ returned = None
    /\ steps = 0

NextLevel16 ==
    \/ MaxCommit
    \/ MaxFinish

SpecLevel16 == InitLevel16 /\ [][NextLevel16]_vars

InitMinCost ==
    /\ \/ (InitMin \/ InitSearch) /\ Fresh
       \/ InitCompare
    /\ returned = None
    /\ steps = 0

NextMinCost ==
    \/ MinEarlyReturn
    \/ MinCommit
    \/ MinFinish
    \/ SearchIterate
    \/ SearchCheck
    \/ SearchReturn
    \/ Compare

SpecMinCost == InitMinCost /\ [][NextMinCost]_vars

(* ---------------------------------------------------------------------- *)
(* generate_plan of the min-cost optimizer as one function of the         *)
(* freshly constructed optimizer, and one search iteration at a ceiling   *)
(* ---------------------------------------------------------------------- *)
RECURSIVE RunMinLoop(_)
RunMinLoop(s) ==
    IF LoopContinues(s) /\ ~IsNone(select_candidate(s, "min"))
    THEN RunMinLoop(commit_candidate(s, Val(select_candidate(s, "min"))))
    ELSE s

generate_plan_min(s) ==
    IF s.xp_needed <= 0 THEN EarlyResult(s) ELSE PlanResult(RunMinLoop(s))

RunAtCeiling(m, player_data, target_king_level, ceiling) ==
    generate_plan_min(NewOptimizer(SearchCopy(m, player_data, ceiling),
                                   SearchSettings(m), target_king_level))

ReachesAtCeiling(m, player_data, target_king_level, ceiling) ==
    ReachedTarget(RunAtCeiling(m, player_data, target_king_level, ceiling),
                  Val(target_king_level))

(* ====================================================================== *)
(* Properties                                                             *)
(* ====================================================================== *)
Cards == 1..Len(player.cards)

LastAction(s) == s.actions[Len(s.actions)]

(* the PlayerData the current optimizer was constructed from              *)
RunInput ==
    IF mode \in {"max", "min"} THEN player ELSE SearchCopy(mode, player, limit)

Running == pc \in {"plan", "loop", "check"}

RECURSIVE SumGold(_)
SumGold(actions) ==
    IF actions = <<>> THEN 0 ELSE Head(actions).gold_cost + SumGold(Tail(actions))

RECURSIVE SumGems(_)
SumGems(actions) ==
    IF actions = <<>> THEN 0 ELSE Head(actions).gems_used + SumGems(Tail(actions))

RECURSIVE SumRoom(_)
SumRoom(cards) ==
    IF cards = <<>> THEN 0 ELSE (LevelCap - Head(cards).level) + SumRoom(Tail(cards))

(* how many of the first k actions upgrade card i                         *)
UpgradesOf(actions, i, k) == Cardinality({j \in 1..k : actions[j].card_name = i})

(* C1: in both simulators every committed action raises the level of      *)
(* exactly one card by exactly 1 (to_level = from_level + 1, from_level   *)
(* being the card's level before the commit) and leaves every other       *)
(* card's level unchanged, so a card's level is its starting level plus   *)
(* the number of actions committed on it; no level lies below the         *)
(* starting level or above the cap of 16.                                 *)
C1_LevelMonotone ==
    /\ \A i \in Cards :
          /\ sim.cards[i].level <= LevelCap
          /\ sim.cards[i].level >= player.cards[i].level
          /\ sim.cards[i].level
                = player.cards[i].level + UpgradesOf(sim.actions, i, Len(sim.actions))
    /\ \A k \in 1..Len(sim.actions) :
          LET a == sim.actions[k]
          IN  /\ a.to_level = a.from_level + 1
              /\ a.from_level
                    = player.cards[a.card_name].level + UpgradesOf(sim.actions, a.card_name, k - 1)

C1_Witness ==
    /\ mode = "min"
    /\ Len(sim.actions) = 2
    /\ LastAction(sim).to_level = LevelCap
    /\ sim.actions[1].card_name # sim.actions[2].card_name

(* C2: starting from non-negative balances, gold, gems, every wild-card   *)
(* balance and every card count stay >= 0 after any sequence of commits   *)
(* under any settings; the gold (unless infinite_gold) and the gems of    *)
(* the committed actions never add up to more than the run started with.  *)
C2_BalancesNonNegative ==
    /\ sim.inventory.gold >= 0
    /\ sim.inventory.gems >= 0
    /\ \A r \in CARD_RARITIES : sim.inventory.wild_cards[r] >= 0
    /\ \A i \in Cards : sim.cards[i].count >= 0
    /\ Running =>
          /\ sim.settings.infinite_gold \/ SumGold(sim.actions) <= RunInput.inventory.gold
          /\ SumGems(sim.actions) <= RunInput.inventory.gems

C2_Witness ==
    /\ mode = "max"
    /\ ~sim.settings.infinite_gold
    /\ Len(sim.actions) = 1
    /\ sim.actions[1].gold_cost > 0
    /\ sim.actions[1].gems_used > 0
    /\ sim.inventory.gold = 0
    /\ sim.inventory.gems = 0

(* C3: with infinite_gold off, the total_gold_spent of every result a     *)
(* simulator run reports equals the sum of gold_cost over the actions of  *)
(* that result's trace.                                                   *)
C3_GoldConservation ==
    (~IsNone(result) /\ ~sim.settings.infinite_gold)
        => Val(result).total_gold_spent = SumGold(Val(result).actions)

C3_Witness ==
    /\ pc = "done"
    /\ mode = "max"
    /\ ~sim.settings.infinite_gold
    /\ Val(result).total_gold_spent = 2
    /\ Len(Val(result).actions) = 2

(* C4: with infinite_gold on, the result's total_gold_spent is 0 whatever *)
(* actions were committed.                                                *)
C4_InfiniteGoldReportsZero ==
    (~IsNone(result) /\ sim.settings.infinite_gold)
        => Val(result).total_gold_spent = 0

(* C5: Level16Optimizer.generate_plan terminates: until it returns it is  *)
(* at the top of its loop, where a round either commits or returns; it    *)
(* returns after at most (sum over all cards of (16 - starting level))    *)
(* commit rounds plus the final round that finds no candidate, and the    *)
(* returned trace is at most that sum long.                               *)
C5_MaxTerminates ==
    mode = "max" =>
        /\ Len(sim.actions) <= SumRoom(player.cards)
        /\ steps <= SumRoom(player.cards) + 1
        /\ pc \in {"plan", "done"}
        /\ steps = Len(sim.actions) + (IF pc = "done" THEN 1 ELSE 0)
        /\ pc = "done" => Len(Val(returned).actions) <= SumRoom(player.cards)

C5_Witness ==
    /\ mode = "max"
    /\ pc = "done"
    /\ SumRoom(player.cards) = 3
    /\ Len(Val(returned).actions) = 3
    /\ steps = 4

(* a result that reports an empty trace and no spend, with the given      *)
(* final balances                                                         *)
EmptyResultWith(r, gold, gems) ==
    /\ r.actions = <<>>
    /\ r.total_xp_gained = 0
    /\ r.total_gold_spent = 0
    /\ r.total_gems_used = 0
    /\ \A rarity \in CARD_RARITIES : r.total_wild_cards_used[rarity] = 0
    /\ r.final_gold = gold
    /\ r.final_gems = gems

(* the profile as the milestone curve writes it: progress that fills the  *)
(* level (xp_into_level = xp_to_next) is the next level with progress 0   *)
CanonicalProfile(p) ==
    LET row == KingRow(p.king_level)
    IN  IF ~IsNone(row.xp_to_next) /\ p.xp_into_level = Val(row.xp_to_next)
        THEN [king_level |-> p.king_level + 1, xp_into_level |-> 0]
        ELSE p

NoCandidateAtStart ==
    IsNone(select_candidate(NewOptimizer(player, sim.settings, None), "max"))

(* C6 as stated: Level16Optimizer run on a validated state in which no    *)
(* card has an affordable candidate returns an empty trace, zero XP,      *)
(* the starting gold and gems, zero wild-card and gem usage, and a        *)
(* final_profile equal to the starting profile.                           *)
C6_ZeroCandidateSameProfile ==
    (mode = "max" /\ pc = "done" /\ NoCandidateAtStart) =>
        /\ EmptyResultWith(Val(returned), player.inventory.gold, player.inventory.gems)
        /\ Val(returned).final_profile = player.profile

(* C6 amended: as stated, except that final_profile is the starting       *)
(* profile as the milestone curve writes it: equal to the starting        *)
(* profile when xp_into_level is below the level's xp_to_next, and the    *)
(* next king level with xp_into_level 0 when xp_into_level equals it.     *)
C6_ZeroCandidateIdempotent ==
    (mode = "max" /\ pc = "done" /\ NoCandidateAtStart) =>
        /\ steps = 1
        /\ sim.cards = player.cards
        /\ sim.inventory = player.inventory
        /\ EmptyResultWith(Val(returned), player.inventory.gold, player.inventory.gems)
        /\ Val(returned).final_profile = CanonicalProfile(player.profile)

C6_Witness ==
    /\ mode = "max" /\ pc = "done" /\ NoCandidateAtStart
    /\ \E i \in Cards : player.cards[i].level < LevelCap /\ player.cards[i].count > 0
    /\ player.inventory.gold > 0
    /\ player.profile = [king_level |-> 2, xp_into_level |-> 0]
    /\ Val(returned).final_profile = player.profile

SearchMode == mode \in {"gem", "gold"}

(* C7: for a non-synthetic result R of find_min_gem_path (resp.           *)
(* find_min_gold_path), either R's usage of the minimized currency is 0   *)
(* or a fresh MinCostToKingLevelOptimizer run on the same player state    *)
(* with the minimized currency's ceiling at (usage - 1) does not reach    *)
(* the target king level.                                                 *)
C7_FloorCertified ==
    (SearchMode /\ pc = "done" /\ ~IsNone(best_result)) =>
        /\ returned = best_result
        /\ ReachedTarget(Val(returned), Val(target))
        /\ \/ Usage(mode, Val(returned)) = 0
           \/ ~ReachesAtCeiling(mode, player, target, Usage(mode, Val(returned)) - 1)

C7_Witness ==
    /\ SearchMode /\ pc = "done" /\ ~IsNone(best_result)
    /\ mode = "gold"
    /\ Usage(mode, Val(returned)) = 2
    /\ ~ReachesAtCeiling(mode, player, target, 1)

(* C8: the usage of the minimized currency in the search result is the    *)
(* smallest ceiling at which the min-cost simulator reaches the target:   *)
(* for every ceiling c with 0 <= c < usage a run capped at c fails.       *)
C8_UsageIsMinimal ==
    (SearchMode /\ pc = "done" /\ ~IsNone(best_result)) =>
        \A c \in 0..(Usage(mode, Val(returned)) - 1) :
            ~ReachesAtCeiling(mode, player, target, c)

StartScore ==
    total_xp_for_level(player.profile.king_level) + player.profile.xp_into_level

TargetScore ==
    total_xp_for_level(IF IsNone(target) THEN player.profile.king_level + 1
                       ELSE Val(target))

(* C9 as stated: when the target milestone's cumulative score is <= the   *)
(* starting total score, the min-cost optimizer returns at once with an   *)
(* empty trace, zero XP and spend, the starting balances, untouched       *)
(* cards, and a final_profile equal to the starting profile.              *)
C9_TargetMetSameProfile ==
    (mode = "min" /\ TargetScore <= StartScore /\ pc = "done") =>
        /\ EmptyResultWith(Val(returned), player.inventory.gold, player.inventory.gems)
        /\ Val(returned).final_profile = player.profile

(* C9 amended: as stated, except that final_profile is the starting       *)
(* profile as the milestone curve writes it (the next king level with     *)
(* xp_into_level 0 when the starting xp_into_level equals xp_to_next).    *)
C9_TargetMetReturnsEmpty ==
    (mode = "min" /\ TargetScore <= StartScore) =>
        /\ pc \in {"plan", "done"}
        /\ steps = (IF pc = "done" THEN 1 ELSE 0)
        /\ sim.actions = <<>>
        /\ sim.cards = player.cards
        /\ sim.inventory = player.inventory
        /\ pc = "done" =>
              /\ EmptyResultWith(Val(returned), player.inventory.gold,
                                 player.inventory.gems)
              /\ Val(returned).final_profile = CanonicalProfile(player.profile)

C9_Witness ==
    /\ mode = "min" /\ TargetScore <= StartScore /\ pc = "done"
    /\ target = Some(2)
    /\ player.profile = [king_level |-> 2, xp_into_level |-> 0]
    /\ ~IsNone(select_candidate(sim, "min"))

FirstIterationFails ==
    ~ReachesAtCeiling(mode, player, target, InitialLimit(mode))

(* C10 as stated: if no iteration of the search reaches the target, the   *)
(* search returns the synthetic result: empty trace, zero XP, gold, gem   *)
(* and wild-card usage, the player's original gold and gems, and a        *)
(* final_profile equal to the player's starting profile.                  *)
C10_SyntheticSameProfile ==
    (SearchMode /\ pc = "done" /\ FirstIterationFails) =>
        /\ EmptyResultWith(Val(returned), player.inventory.gold, player.inventory.gems)
        /\ Val(returned).final_profile = player.profile

(* C10 amended: as stated, except that final_profile is the starting      *)
(* profile as the milestone curve writes it (the next king level with     *)
(* xp_into_level 0 when the starting xp_into_level equals xp_to_next).    *)
C10_SyntheticResult ==
    (SearchMode /\ pc = "done" /\ FirstIterationFails) =>
        /\ IsNone(best_result)
        /\ EmptyResultWith(Val(returned), player.inventory.gold, player.inventory.gems)
        /\ Val(returned).final_profile = CanonicalProfile(player.profile)

C10_Witness ==
    /\ SearchMode /\ pc = "done" /\ FirstIterationFails
    /\ mode = "gem"
    /\ player.inventory.gems = 1
    /\ Len(Val(result).actions) = 2
    /\ Val(returned).final_gems = 1
    /\ Val(returned).actions = <<>>

(* card i's next upgrade has all its table rows, needs exactly the units  *)
(* the card owns and costs exactly the gold the player holds              *)
ExactFit(i) ==
    LET card == player.cards[i]
    IN  /\ card.level < LevelCap
        /\ get_material_requirement(card.rarity, card.level + 1) = Some(card.count)
        /\ get_gold_cost(card.level + 1) = Some(player.inventory.gold)
        /\ ~IsNone(get_xp_reward(card.level + 1))

(* card j cannot be upgraded from owned units and the gold held           *)
NotAffordableAtStart(j) ==
    LET card == player.cards[j]
    IN  \/ card.level >= LevelCap
        \/ IsNone(get_material_requirement(card.rarity, card.level + 1))
        \/ IsNone(get_gold_cost(card.level + 1))
        \/ IsNone(get_xp_reward(card.level + 1))
        \/ card.count < Val(get_material_requirement(card.rarity, card.level + 1))
        \/ player.inventory.gold < Val(get_gold_cost(card.level + 1))

ExactFitScenario(i) ==
    /\ mode = "max"
    /\ ~sim.settings.use_gems
    /\ ~sim.settings.infinite_gold
    /\ \A r \in CARD_RARITIES : player.inventory.wild_cards[r] = 0
    /\ ExactFit(i)
    /\ \A j \in Cards \ {i} : NotAffordableAtStart(j)

(* C11: when the only affordable upgrade needs exactly the units its card *)
(* owns and exactly the gold the player holds (no wild cards, gems off,   *)
(* infinite_gold off), Level16Optimizer commits that one action in its    *)
(* first round and stops in the second: the trace is that single action,  *)
(* raising the card by one level, total_xp_gained is that level's XP      *)
(* reward, and final_gold is 0.                                           *)
C11_ExactFitOneAction ==
    \A i \in Cards :
        ExactFitScenario(i) =>
            /\ Len(sim.actions) <= 1
            /\ steps >= 1 => Len(sim.actions) = 1
            /\ Len(sim.actions) = 1 =>
                  /\ sim.actions[1].card_name = i
                  /\ sim.actions[1].to_level = player.cards[i].level + 1
                  /\ sim.actions[1].card_cost = player.cards[i].count
                  /\ sim.actions[1].gold_cost = player.inventory.gold
                  /\ sim.cards[i].level = player.cards[i].level + 1
                  /\ sim.cards[i].count = 0
                  /\ sim.inventory.gold = 0
            /\ pc = "done" =>
                  /\ steps = 2
                  /\ Len(Val(returned).actions) = 1
                  /\ Val(returned).total_xp_gained
                        = Val(get_xp_reward(player.cards[i].level + 1))
                  /\ Val(returned).final_gold = 0
                  /\ Val(returned).total_gold_spent = player.inventory.gold

C11_Witness ==
    /\ ExactFitScenario(1)
    /\ pc = "done"
    /\ player.inventory.gold = 2
    /\ player.cards[1].count = 1
    /\ player.cards[2].level < LevelCap
    /\ Len(Val(returned).actions) = 1
    /\ Val(returned).total_xp_gained = 4
    /\ Val(returned).final_gold = 0

(* the valid candidates of one round: what _build_candidate returns for   *)
(* each card of optimizer s                                               *)
ValidCandidates(s, kind) ==
    {Val(o) : o \in {build_candidate(s, kind, i) : i \in 1..Len(s.cards)} \ {None}}

(* the committed candidate as the trace records it                        *)
CandidateOf(a) ==
    [index |-> a.card_name,
     from_level |-> a.from_level,
     to_level |-> a.to_level,
     gold_cost |-> a.gold_cost,
     cards_used |-> a.card_cost,
     wild_cards_used |-> a.wild_cards_used,
     gems_used |-> a.gems_used,
     xp_gained |-> a.xp_gained,
     efficiency_ratio |-> a.efficiency_ratio,
     material_efficiency |-> a.material_efficiency]

(* the optimizer after the first k actions of a trace were committed      *)
RECURSIVE Replay(_, _, _)
Replay(s, actions, k) ==
    IF k = 0 THEN s
    ELSE commit_candidate(Replay(s, actions, k - 1), CandidateOf(actions[k]))

(* the optimizer as constructed for the current run, and as it stood at   *)
(* the top of round k (before the k-th commit)                            *)
StartOf == NewOptimizer(RunInput, sim.settings, target)

RoundState(k) == Replay(StartOf, sim.actions, k - 1)

(* action a is the commit of candidate c taken in optimizer state pre     *)
Commits(a, c, pre) == a = UpgradeAction(pre.cards[c.index], c)

(* the optimizer at the top of the round that committed the last action   *)
LastRoundState == RoundState(Len(sim.actions))

(* Every commit is the last action of the state it leads to, so a         *)
(* property of the last action of every reachable state is a property of  *)
(* every committed action.                                                *)
Committed == sim.actions # <<>>

IsMaxBest(c, cands) ==
    \A b \in cands :
        /\ ~RatLess(b.efficiency_ratio, c.efficiency_ratio)
        /\ RatEq(b.efficiency_ratio, c.efficiency_ratio) =>
              /\ b.xp_gained <= c.xp_gained
              /\ b.xp_gained = c.xp_gained => c.index <= b.index

(* C12: in every round of Level16Optimizer the committed candidate is a   *)
(* valid candidate of that round with the lowest efficiency_ratio; among  *)
(* the candidates with that ratio it has the highest xp_gained, and among *)
(* those the earliest position in the card list.                          *)
C12_MaxCommitsLowestRatio ==
    (mode = "max" /\ Committed) =>
        LET pre == LastRoundState
            cands == ValidCandidates(pre, "max")
        IN  /\ commit_candidate(pre, CandidateOf(LastAction(sim))) = sim
            /\ \E c \in cands :
                  /\ Commits(LastAction(sim), c, pre)
                  /\ IsMaxBest(c, cands)

C12_Witness ==
    /\ mode = "max"
    /\ Len(sim.actions) >= 1
    /\ sim.actions[1].card_name = 2
    /\ LET cands == ValidCandidates(RoundState(1), "max")
       IN  /\ Cardinality(cands) = 2
           /\ \A b \in cands :
                  RatEq(b.efficiency_ratio, sim.actions[1].efficiency_ratio)
           /\ \E b \in cands : b.xp_gained < sim.actions[1].xp_gained

(* (gold_cost + gems_used) / xp_gained, computed from the candidate       *)
RawEfficiency(c) ==
    <<c.gold_cost + c.gems_used, IF c.xp_gained # 0 THEN c.xp_gained ELSE 1>>

(* strict lexicographic order on                                          *)
(* (raw efficiency, gems_used, gold_cost, -xp_gained)                     *)
KeyLess(c, b) ==
    \/ RatLess(RawEfficiency(c), RawEfficiency(b))
    \/ /\ RatEq(RawEfficiency(c), RawEfficiency(b))
       /\ \/ c.gems_used < b.gems_used
          \/ /\ c.gems_used = b.gems_used
             /\ \/ c.gold_cost < b.gold_cost
                \/ /\ c.gold_cost = b.gold_cost
                   /\ c.xp_gained > b.xp_gained

KeyEq(c, b) ==
    /\ RatEq(RawEfficiency(c), RawEfficiency(b))
    /\ c.gems_used = b.gems_used
    /\ c.gold_cost = b.gold_cost
    /\ c.xp_gained = b.xp_gained

IsMinBest(c, cands) ==
    \A b \in cands :
        /\ ~KeyLess(b, c)
        /\ KeyEq(b, c) => c.index <= b.index

MinRun == mode = "min" \/ (SearchMode /\ Running)

(* C13: in every round of MinCostToKingLevelOptimizer the committed       *)
(* candidate is a valid candidate of that round, its efficiency_ratio is  *)
(* the raw (gold_cost + gems_used) / xp_gained, and it is the             *)
(* lexicographic minimum of (raw efficiency, gems_used, gold_cost,        *)
(* -xp_gained) over the round's valid candidates, the earliest card       *)
(* winning a full tie; one comparison of the scan keeps best unless the   *)
(* later candidate is strictly smaller in that order.                     *)
C13_MinCommitsLexMin ==
    /\ (MinRun /\ Committed) =>
          LET pre == LastRoundState
              cands == ValidCandidates(pre, "min")
          IN  \E c \in cands :
                  /\ Commits(LastAction(sim), c, pre)
                  /\ RatEq(c.efficiency_ratio, RawEfficiency(c))
                  /\ IsMinBest(c, cands)
    /\ (mode = "compare" /\ pc = "done") =>
          LET best == Val(best_result).best
              candidate == Val(best_result).candidate
              kept == Val(returned)
          IN  /\ kept \in {best, candidate}
              /\ ~KeyLess(best, kept)
              /\ ~KeyLess(candidate, kept)
              /\ ~KeyLess(candidate, best) => kept = best

C13_Witness ==
    /\ mode = "compare" /\ pc = "done"
    /\ Val(best_result).best.gems_used = 1
    /\ Val(best_result).best.gold_cost = 0
    /\ Val(best_result).candidate.gems_used = 0
    /\ Val(best_result).candidate.gold_cost = 1
    /\ RatEq(Val(best_result).best.efficiency_ratio,
             Val(best_result).candidate.efficiency_ratio)
    /\ Val(returned) = Val(best_result).candidate

(* the total score before the k-th action of the current trace            *)
ScoreBefore(k) == StartScore + SumXp(SubSeq(sim.actions, 1, k - 1))

PlanReturned == (mode = "min" /\ pc = "done") \/ (SearchMode /\ pc = "check")

(* C14: in MinCostToKingLevelOptimizer every action is committed while    *)
(* the cumulative total score is strictly below the target milestone's    *)
(* score, so only the last action of a trace can carry the total to or    *)
(* past the target; and when generate_plan has returned, the total is >=  *)
(* the target score or no card has a valid candidate.                     *)
C14_CommitsOnlyBelowTarget ==
    MinRun =>
        /\ sim.xp_total = StartScore + SumXp(sim.actions)
        /\ sim.target_xp = TargetScore
        /\ \A k \in 1..Len(sim.actions) : ScoreBefore(k) < TargetScore
        /\ PlanReturned =>
              \/ sim.xp_total >= sim.target_xp
              \/ ValidCandidates(sim, "min") = {}

C14_Witness ==
    /\ mode = "min" /\ pc = "done"
    /\ Len(sim.actions) = 2
    /\ ScoreBefore(2) < sim.target_xp
    /\ sim.xp_total > sim.target_xp
    /\ ValidCandidates(sim, "min") # {}

(* owned-units-required / xp_gained of an action of the trace             *)
MaterialRatio(a) ==
    <<Val(get_material_requirement(a.rarity, a.to_level)),
      IF a.xp_gained # 0 THEN a.xp_gained ELSE 1>>

(* C15: in Level16Optimizer with infinite_gold on, the table's efficiency *)
(* override is not applied and the efficiency_ratio of every committed    *)
(* candidate is cards_required / xp_gained.                               *)
C15_InfiniteGoldMaterialRatio ==
    (mode = "max" /\ sim.settings.infinite_gold) =>
        \A k \in 1..Len(sim.actions) :
            RatEq(sim.actions[k].efficiency_ratio, MaterialRatio(sim.actions[k]))

(* card i of optimizer s cannot be upgraded: it is at the cap, a table    *)
(* row of its next level is missing, or the upgrade cannot be fully paid  *)
(* for under the settings and balances of s                               *)
CannotUpgrade(s, i) ==
    LET card == s.cards[i]
        req == get_material_requirement(card.rarity, card.level + 1)
        gc == get_gold_cost(card.level + 1)
        xp == get_xp_reward(card.level + 1)
    IN  \/ card.level >= LevelCap
        \/ IsNone(req) \/ IsNone(gc) \/ IsNone(xp)
        \/ LET shortfall == Max2(0, Val(req) - card.count
                                    - s.inventory.wild_cards[card.rarity])
           IN  \/ shortfall > 0 /\ ~s.settings.use_gems
               \/ ~s.settings.infinite_gold /\ Val(gc) > s.inventory.gold
               \/ shortfall > 0
                  /\ GemsForShortfall(card.rarity, shortfall) > s.inventory.gems

(* C16: Level16Optimizer.generate_plan stops only by exhaustion: in the   *)
(* state it returns from no card has a valid candidate (each card is at   *)
(* level 16, lacks a table row, or cannot be fully paid for), and at the  *)
(* top of a round in which some card has a valid candidate the selection  *)
(* is not None, so the round commits and does not return.                 *)
C16_StopsOnlyByExhaustion ==
    mode = "max" =>
        /\ pc = "done" =>
              /\ ValidCandidates(sim, "max") = {}
              /\ \A i \in Cards : CannotUpgrade(sim, i)
              /\ Val(returned).actions = sim.actions
        /\ (pc = "plan" /\ \E i \in Cards : ~CannotUpgrade(sim, i)) =>
              ~IsNone(select_candidate(sim, "max"))

C16_Witness ==
    /\ mode = "max" /\ pc = "done"
    /\ Len(sim.actions) = 2
    /\ \E i \in Cards :
          /\ sim.cards[i].level = LevelCap - 1
          /\ sim.cards[i].count >= 1
          /\ sim.inventory.gold < Val(get_gold_cost(LevelCap))

SimulatorRun == mode = "max" \/ MinRun

(* C17: for every committed action of either simulator, owned units are   *)
(* consumed first, then wild cards, then gems: card_cost = min(card       *)
(* count, cards required), wild_cards_used = min(cards required -         *)
(* card_cost, wild cards held of that rarity), gems_used > 0 only if a    *)
(* shortfall remains after both and use_gems is on; with use_gems off     *)
(* card_cost + wild_cards_used = cards required and gems_used = 0.        *)
C17_UnitsThenWildThenGems ==
    (SimulatorRun /\ Committed) =>
        LET a == LastAction(sim)
            pre == LastRoundState
            required == Val(get_material_requirement(a.rarity, a.to_level))
            shortfall == required - a.card_cost - a.wild_cards_used
        IN  /\ commit_candidate(pre, CandidateOf(a)) = sim
            /\ a.card_cost = Min2(pre.cards[a.card_name].count, required)
            /\ a.wild_cards_used
                  = Min2(required - a.card_cost, pre.inventory.wild_cards[a.rarity])
            /\ shortfall >= 0
            /\ a.gems_used >= 0
            /\ a.gems_used > 0 => (shortfall > 0 /\ sim.settings.use_gems)
            /\ ~sim.settings.use_gems => (shortfall = 0 /\ a.gems_used = 0)

C17_Witness ==
    /\ SimulatorRun
    /\ sim.settings.use_gems
    /\ Len(sim.actions) = 2
    /\ sim.actions[1].card_cost = 1
    /\ sim.actions[1].wild_cards_used = 1
    /\ sim.actions[1].gems_used = 0
    /\ RoundState(1).inventory.gems = 1
    /\ sim.actions[2].card_cost = 0
    /\ sim.actions[2].wild_cards_used = 0
    /\ sim.actions[2].gems_used = 1

ZeroGemRate(rarity) == gem_value_for_rarity(rarity)[1] = 0

(* card i of optimizer s has a zero gem rate and its owned units plus the *)
(* wild cards of its rarity do not cover its next level                   *)
ZeroRateShortfall(s, i) ==
    LET card == s.cards[i]
        req == get_material_requirement(card.rarity, card.level + 1)
    IN  /\ card.level < LevelCap
        /\ ~IsNone(req)
        /\ ZeroGemRate(card.rarity)
        /\ card.count + s.inventory.wild_cards[card.rarity] < Val(req)

(* C18: a card whose rarity has a zero gem rate and whose owned units     *)
(* plus wild cards do not cover its next level yields no candidate, even  *)
(* with use_gems on and unlimited gems, so no action of a trace upgrades  *)
(* such a card, and a minimal-currency search whose cards are all of this *)
(* kind or at the cap, and whose target is not yet met, returns the       *)
(* synthetic result with an empty trace.                                  *)
C18_ZeroRateNeverUpgraded ==
    /\ SimulatorRun =>
          \A k \in 1..Len(sim.actions) :
              ~ZeroRateShortfall(RoundState(k), sim.actions[k].card_name)
    /\ (SearchMode /\ pc = "done"
        /\ StartScore < TargetScore
        /\ \A i \in Cards :
              \/ player.cards[i].level >= LevelCap
              \/ ZeroRateShortfall(StartOf, i)) =>
          /\ IsNone(best_result)
          /\ Val(returned).actions = <<>>

(* the three tables all have a row for this rarity and target level       *)
HasRows(rarity, target_level) ==
    /\ rarity \in DOMAIN CARD_MATERIAL_REQUIREMENTS
    /\ target_level \in DOMAIN CARD_MATERIAL_REQUIREMENTS[rarity]
    /\ target_level \in DOMAIN GOLD_COST_TABLE
    /\ target_level \in DOMAIN CARD_XP_TABLE

MissingRow(card) == card.level < LevelCap /\ ~HasRows(card.rarity, card.level + 1)

AtLoopTop == SimulatorRun /\ pc \in {"plan", "loop"}

(* card shapes tried in place of the first card: every rarity, at the     *)
(* level below the lowest starting level                                  *)
ProbeCards ==
    [rarity : CARD_RARITIES, level : {LevelCap - MaxRoom - 1}]

WithFirstCard(s, shape) ==
    [s EXCEPT !.cards[1] = [rarity |-> shape.rarity, level |-> shape.level,
                            count |-> @.count]]

(* C19: a card whose next level has no row in the material-requirement    *)
(* table for its rarity, in the gold-cost table or in the XP-reward table *)
(* yields no candidate (None, no error) and never appears in the trace at *)
(* that level, and the selection still returns a candidate whenever       *)
(* another card has a valid one; a card of any rarity at a level without  *)
(* rows, put in the first card's place before the first round of an       *)
(* optimizer constructed without explicit target, yields no candidate     *)
(* either.                                                                *)
C19_MissingRowSkipped ==
    /\ (SimulatorRun /\ Committed) =>
          HasRows(LastAction(sim).rarity, LastAction(sim).to_level)
    /\ AtLoopTop =>
          \A i \in Cards :
              MissingRow(sim.cards[i]) =>
                  /\ IsNone(build_candidate(sim, Kind, i))
                  /\ ValidCandidates(sim, Kind) # {}
                        => ~IsNone(select_candidate(sim, Kind))
    /\ (AtLoopTop /\ steps = 0 /\ IsNone(target)) =>
          \A shape \in {c \in ProbeCards : ~HasRows(c.rarity, c.level + 1)} :
              IsNone(build_candidate(WithFirstCard(sim, shape), Kind, 1))

C19_Witness ==
    /\ SimulatorRun /\ pc = "done" /\ mode = "min"
    /\ MissingRow(player.cards[1])
    /\ sim.cards[1] = player.cards[1]
    /\ player.cards[1].count = 1
    /\ Len(sim.actions) = 2
    /\ \A k \in 1..2 : sim.actions[k].card_name = 2

(* the rows of the milestone curve whose cumulative score is <= total_xp  *)
RowsAtOrBelow(total_xp) ==
    {i \in 1..Len(KING_XP_TABLE) : KING_XP_TABLE[i].cumulative <= total_xp}

(* C20: for every integer total score, king_progress_from_total_xp        *)
(* returns the greatest milestone row whose cumulative score is <= the    *)
(* input, with xp_into_level within [0, xp_to_next] and 0 at the terminal *)
(* row.                                                                   *)
C20_LookupGreatestRowClamped ==
    (mode = "lookup" /\ pc = "done") =>
        LET progress == Val(returned)
            rows == RowsAtOrBelow(limit)
        IN  /\ rows # {}
            /\ \E i \in rows :
                  /\ \A j \in rows : j <= i
                  /\ progress.level = KING_XP_TABLE[i].level
                  /\ progress.xp_to_next = Or0(KING_XP_TABLE[i].xp_to_next)
                  /\ IsNone(KING_XP_TABLE[i].xp_to_next) => progress.xp_into_level = 0
            /\ progress.xp_into_level >= 0
            /\ progress.xp_into_level <= progress.xp_to_next

(* the ceiling the run that produced the search result res started with   *)
CeilingOf(m, res) ==
    IF m = "gem" THEN res.final_gems + res.total_gems_used
    ELSE res.final_gold + res.total_gold_spent

(* steps one iteration of the search takes at most: the construction, a   *)
(* commit per level of room, the returning round and the check            *)
IterationSteps == SumRoom(player.cards) + 3

(* steps the search can still take: an iteration per ceiling from the     *)
(* current one down to 0, then the return                                 *)
SearchRank ==
    CASE pc = "search" -> (limit + 1) * IterationSteps + 1
      [] pc \in {"plan", "loop"} -> (limit + 1) * IterationSteps - Len(sim.actions)
      [] pc = "check" -> limit * IterationSteps + 2
      [] pc = "return" -> 1
      [] OTHER -> 0

(* C21: find_min_gem_path and find_min_gold_path terminate:               *)
(* every step lowers the number of steps still possible, which is never   *)
(* negative; the ceiling never rises and never goes below 0, and changes  *)
(* only after an iteration that reached the target with a usage above 0,  *)
(* to (usage - 1), strictly below the ceiling of that iteration; an       *)
(* iteration never uses more than its ceiling, so a later successful      *)
(* iteration uses strictly less than the one before; the loop ends at the *)
(* first iteration that fails or uses 0, and the search returns the last  *)
(* successful result.                                                     *)
C21_SearchTerminates ==
    [][SearchMode =>
          /\ SearchRank' < SearchRank
          /\ SearchRank' >= 0
          /\ 0 <= limit' /\ limit' <= limit
          /\ limit' # limit =>
                /\ pc = "check" /\ pc' = "search"
                /\ ReachedTarget(Val(result), Val(target))
                /\ Usage(mode, Val(result)) > 0
                /\ limit' = Usage(mode, Val(result)) - 1
                /\ limit' < limit
          /\ pc = "check" =>
                /\ Usage(mode, Val(result)) <= limit
                /\ (~IsNone(best_result) /\ ReachedTarget(Val(result), Val(target))) =>
                      Usage(mode, Val(result)) < Usage(mode, Val(best_result))
                /\ pc' = (IF ReachedTarget(Val(result), Val(target))
                             /\ Usage(mode, Val(result)) > 0
                          THEN "search" ELSE "return")
                /\ best_result' = (IF ReachedTarget(Val(result), Val(target))
                                   THEN result ELSE best_result)
          /\ (pc = "return" /\ ~IsNone(best_result)) =>
                /\ returned' = best_result
                /\ ReachedTarget(Val(returned'), Val(target))]_vars

C21_Witness ==
    /\ SearchMode /\ pc = "check"
    /\ ~IsNone(best_result)
    /\ ReachedTarget(Val(result), Val(target))
    /\ Usage(mode, Val(result)) > 0
    /\ Usage(mode, Val(result)) < Usage(mode, Val(best_result))
    /\ limit < InitialLimit(mode)

(* C22 as stated: in find_min_gem_path gold is held at the player's gold  *)
(* balance: no action is committed whose gold_cost exceeds the gold       *)
(* remaining before the commit, and the summed gold cost of the returned  *)
(* plan never exceeds the player's gold.                                  *)
C22_GemSearchHoldsGold ==
    mode = "gem" =>
        /\ (Committed /\ pc # "search") =>
              LastAction(sim).gold_cost <= LastRoundState.inventory.gold
        /\ pc = "done" => SumGold(Val(returned).actions) <= player.inventory.gold

(* C22 amended: find_min_gem_path runs every iteration with               *)
(* infinite_gold on: gold costs are neither checked nor deducted, so the  *)
(* gold balance stays at the player's gold whatever the committed         *)
(* actions cost; find_min_gold_path runs with infinite_gold off, its      *)
(* gold starting at the ceiling, paying every committed action and never  *)
(* going below 0, and its gems starting at 10,000,000.                    *)
C22_GemSearchIgnoresGold ==
    [][SearchMode =>
          IF mode = "gem"
          THEN /\ sim'.settings.infinite_gold
               /\ sim'.inventory.gold = player.inventory.gold
               /\ pc = "search" => sim'.inventory.gems = limit
          ELSE /\ ~sim'.settings.infinite_gold
               /\ sim'.inventory.gold >= 0
               /\ pc = "search" =>
                     /\ sim'.inventory.gold = limit
                     /\ sim'.inventory.gems = GoldPathGems
               /\ (pc # "search" /\ sim'.actions # sim.actions) =>
                     sim'.inventory.gold
                        = sim.inventory.gold - LastAction(sim').gold_cost]_vars

C22_Witness ==
    /\ mode = "gem" /\ pc = "done"
    /\ returned = best_result
    /\ player.inventory.gold = 0
    /\ SumGold(Val(returned).actions) = 2
    /\ LastAction(sim).gold_cost = 2
    /\ sim.inventory.gold = 0

RECURSIVE SumWild(_, _)
SumWild(actions, rarity) ==
    IF actions = <<>> THEN 0
    ELSE (IF Head(actions).rarity = rarity THEN Head(actions).wild_cards_used ELSE 0)
         + SumWild(Tail(actions), rarity)

(* the result variable holds the result of the run just finished          *)
ResultOfRun == ~IsNone(result) /\ pc \in {"check", "return", "done"}

(* C24: every result either simulator returns has aggregates that agree   *)
(* with its trace: total_xp_gained is the sum of the actions' xp_gained,  *)
(* total_gems_used is the sum of their gems_used and equals the gems the  *)
(* run started with minus final_gems, each rarity's total_wild_cards_used *)
(* is the sum of wild_cards_used over the actions of that rarity, and     *)
(* final_profile is the milestone lookup of the starting total score      *)
(* plus total_xp_gained.                                                  *)
C24_AggregatesMatchTrace ==
    [][result' # result =>
          LET r == Val(result')
          IN  /\ r.actions = sim.actions
              /\ r.total_xp_gained = SumXp(r.actions)
              /\ r.total_gems_used = SumGems(r.actions)
              /\ r.total_gems_used = RunInput.inventory.gems - r.final_gems
              /\ \A rarity \in CARD_RARITIES :
                    r.total_wild_cards_used[rarity] = SumWild(r.actions, rarity)
              /\ r.final_profile
                    = ProfileOf(king_progress_from_total_xp(
                                   StartScore + r.total_xp_gained))]_vars

C24_Witness ==
    /\ ResultOfRun
    /\ mode = "max"
    /\ Len(Val(result).actions) = 3
    /\ Val(result).total_gems_used = 1
    /\ Val(result).total_wild_cards_used["Common"] = 1
    /\ player.profile = [king_level |-> 1, xp_into_level |-> 4]
    /\ Val(result).final_profile.king_level = 3

ExplicitTargetNotAbove ==
    ~IsNone(target) /\ Val(target) <= player.profile.king_level

(* C25 as stated: in the min-cost simulator the target is the next        *)
(* milestone (king level + 1) when no explicit target is given or when    *)
(* the explicit target does not exceed the player's king level, and the   *)
(* explicit target otherwise.                                             *)
C25_TargetDefaultsToNext ==
    mode \in {"min", "gem", "gold"} =>
        sim.target_level = (IF IsNone(target) \/ ExplicitTargetNotAbove
                            THEN player.profile.king_level + 1
                            ELSE Val(target))

(* C25 amended: the min-cost simulator's target is king level + 1 only    *)
(* when no explicit target is given; an explicit target is used as given, *)
(* and one that does not exceed the player's king level is already met,   *)
(* so the constructed optimizer needs no XP and its run does not enter    *)
(* the loop.                                                              *)
C25_ExplicitTargetKept ==
    (pc = "plan" /\ mode \in {"min", "gem", "gold"}) =>
        /\ sim.target_level = (IF IsNone(target) THEN player.profile.king_level + 1
                               ELSE Val(target))
        /\ sim.target_xp = total_xp_for_level(sim.target_level)
        /\ ExplicitTargetNotAbove =>
              /\ sim.xp_needed = 0
              /\ sim.actions = <<>>
              /\ ~InLoop

C25_Witness ==
    /\ mode = "min" /\ pc = "plan" /\ steps = 0
    /\ target = Some(2)
    /\ player.profile.king_level = 2
    /\ sim.target_level = 2
    /\ sim.xp_needed = 0
    /\ ~IsNone(select_candidate(sim, "min"))

(* the balances of a search iteration's result, measured against the      *)
(* ceiling the iteration ran with                                         *)
RelativeToCeiling(m, res, ceiling) ==
    IF m = "gem"
    THEN /\ res.final_gems + res.total_gems_used = ceiling
         /\ res.final_gold = player.inventory.gold
    ELSE /\ res.final_gold + res.total_gold_spent = ceiling
         /\ res.final_gems + res.total_gems_used = GoldPathGems

(* C26: the result a search returns when some iteration reached the       *)
(* target is the result of the last successful iteration, and its final   *)
(* balances are relative to that iteration's ceilings (the initial        *)
(* ceiling, or the previous successful usage - 1): in find_min_gem_path   *)
(* final_gems + total_gems_used is the gem ceiling and final_gold is the  *)
(* player's gold whatever total_gold_spent is; in find_min_gold_path      *)
(* final_gold + total_gold_spent is the gold ceiling and final_gems +     *)
(* total_gems_used is 10,000,000.                                         *)
C26_BalancesRelativeToCeilings ==
    [][SearchMode =>
          /\ best_result' # best_result =>
                /\ pc = "check"
                /\ ReachedTarget(Val(result), Val(target))
                /\ best_result' = result
                /\ \/ limit = InitialLimit(mode)
                   \/ /\ ~IsNone(best_result)
                      /\ limit = Usage(mode, Val(best_result)) - 1
                /\ RelativeToCeiling(mode, Val(result), limit)
          /\ (pc = "check" /\ ReachedTarget(Val(result), Val(target))) =>
                best_result' = result
          /\ (pc = "return" /\ ~IsNone(best_result)) =>
                /\ returned' = best_result
                /\ RelativeToCeiling(mode, Val(returned'),
                                     CeilingOf(mode, Val(returned')))
                /\ CeilingOf(mode, Val(returned')) >= limit]_vars

C26_Witness ==
    /\ SearchMode /\ pc = "done"
    /\ returned = best_result
    /\ ~IsNone(best_result)
    /\ Usage(mode, Val(returned)) > 0
    /\ CeilingOf(mode, Val(returned)) < InitialLimit(mode)
    /\ CeilingOf(mode, Val(returned)) > limit
    /\ Val(returned).final_gems # player.inventory.gems
    /\ Val(returned).total_gold_spent > player.inventory.gold
====
